---------------------------- MODULE Spec2Model ----------------------------
(***************************************************************************)
(* A model of src/queryv2.py: the JSON-RPC gateway (SolanaRPCClient), the  *)
(* balance-delta extractor and transfer matcher (TransactionScanner), and  *)
(* the scan loop (scan_for_amount).                                        *)
(*                                                                         *)
(* Amounts.  The code divides raw integer balances and the fee by 1e9 and  *)
(* compares the quotients with the float parameters min_amount_threshold,  *)
(* target amount and tolerance.  Here every coin amount x is held as the   *)
(* integer x * 1e9 (its raw count), so the division is exact and the       *)
(* comparisons of the code are comparisons of integers.  Binary floating   *)
(* point rounding is not modelled.                                         *)
(*                                                                         *)
(* JSON.  A value that may be absent, null or an object is held as a       *)
(* record of fixed shape with a "kind" field, since TLC compares only     *)
(* values of one shape.  Python's None for an account is NoAccount.        *)
(***************************************************************************)
EXTENDS Integers, Sequences, FiniteSets, TLC

\* ------------------------------------------------------------------ bounds
\* Longest preBalances / postBalances / accountKeys array of a transaction.
MaxAccounts == 3
\* Largest raw balance of an account (before or after a transaction).
MaxBalance == 3

\* ------------------------------------------------------------ small helpers
Abs(x) == IF x < 0 THEN -x ELSE x

Min2(a, b) == IF a < b THEN a ELSE b

\* Python's None where an account key is expected.
NoAccount == "None"

\* Account keys of a transaction are pairwise distinct; the k-key list is
\* the first k of these names.
KeyNames == <<"A", "B", "C", "D", "E">>

\* ------------------------------------------------------ the matcher (pure)

\* dict[key] = value on an insertion-ordered dict held as a sequence of
\* entries: an existing key keeps its place and takes the new value.
DictPut(d, e) ==
    IF \E j \in 1..Len(d) : d[j].account = e.account
    THEN [j \in 1..Len(d) |-> IF d[j].account = e.account THEN e ELSE d[j]]
    ELSE Append(d, e)

\* Mutant of AnalyzeStep: the change taken as pre - post.
AnalyzeStepSwapped(changes, pre, post, keys, i, thr) ==
    IF i > Len(post) \/ i > Len(keys)
    THEN changes
    ELSE LET change == pre[i] - post[i]
         IN  IF Abs(change) >= thr
             THEN DictPut(changes, [account      |-> keys[i],
                                    pre_balance  |-> pre[i],
                                    post_balance |-> post[i],
                                    change       |-> change])
             ELSE changes

\* One iteration of the loop of _analyze_balance_changes, for index i
\* (1-based here, 0-based in the code).
AnalyzeStep(changes, pre, post, keys, i, thr) ==
    IF i > Len(post) \/ i > Len(keys)
    THEN changes
    ELSE LET change == post[i] - pre[i]
         IN  IF Abs(change) >= thr
             THEN DictPut(changes, [account      |-> keys[i],
                                    pre_balance  |-> pre[i],
                                    post_balance |-> post[i],
                                    change       |-> change])
             ELSE changes

RECURSIVE AnalyzeFrom(_, _, _, _, _, _)
AnalyzeFrom(changes, pre, post, keys, i, thr) ==
    IF i > Len(pre)
    THEN changes
    ELSE AnalyzeFrom(AnalyzeStep(changes, pre, post, keys, i, thr),
                     pre, post, keys, i + 1, thr)

\* _analyze_balance_changes: the dict of retained balance changes, in
\* insertion order.
AnalyzeBalanceChanges(pre, post, keys, thr) ==
    AnalyzeFrom(<<>>, pre, post, keys, 1, thr)

\* significant_transfers: the second filter on |change| >= threshold.
SignificantTransfers(balance_changes, thr) ==
    LET Keep(e) == Abs(e.change) >= thr
    IN  SelectSeq(balance_changes, Keep)

\* Mutant of Matches: the window's bounds taken exclusive.
MatchesStrict(significant, target, tol) ==
    LET Keep(t) == Abs(Abs(t.change) - target) < tol
    IN  SelectSeq(significant, Keep)

\* matches: the significant transfers within tolerance of the target.
Matches(significant, target, tol) ==
    LET Keep(t) == Abs(Abs(t.change) - target) <= tol
    IN  SelectSeq(significant, Keep)

\* Mutant of BestMatch: the last maximal item instead of the first.
BestMatchLast(matches) ==
    LET top == CHOOSE j \in 1..Len(matches) :
                 /\ \A k \in 1..Len(matches) :
                        Abs(matches[k].change) <= Abs(matches[j].change)
                 /\ \A k \in (j + 1)..Len(matches) :
                        Abs(matches[k].change) < Abs(matches[j].change)
    IN  matches[top]

\* max(matches, key=|change|): Python's max returns the first maximal item.
BestMatch(matches) ==
    LET top == CHOOSE j \in 1..Len(matches) :
                 /\ \A k \in 1..Len(matches) :
                        Abs(matches[k].change) <= Abs(matches[j].change)
                 /\ \A k \in 1..(j - 1) :
                        Abs(matches[k].change) < Abs(matches[j].change)
    IN  matches[top]

\* Mutant of Offsetting: a sum of exactly the threshold accepted.
OffsettingInclusive(significant, best, thr) ==
    {j \in 1..Len(significant) :
        /\ significant[j].account # best.account
        /\ Abs(significant[j].change + best.change) <= thr}

\* The indexes of the significant transfers that offset best_match.
Offsetting(significant, best, thr) ==
    {j \in 1..Len(significant) :
        /\ significant[j].account # best.account
        /\ Abs(significant[j].change + best.change) < thr}

\* Mutant of CounterpartyAccount: the loop without its break, so the last
\* offsetting transfer wins.
CounterpartyAccountLast(significant, best, thr) ==
    LET off == Offsetting(significant, best, thr)
    IN  IF off = {}
        THEN NoAccount
        ELSE significant[CHOOSE j \in off : \A k \in off : j >= k].account

\* The counterparty loop: the first offsetting transfer's account, or None.
CounterpartyAccount(significant, best, thr) ==
    LET off == Offsetting(significant, best, thr)
    IN  IF off = {}
        THEN NoAccount
        ELSE significant[CHOOSE j \in off : \A k \in off : j <= k].account

SenderOf(best, counterparty) ==
    IF best.change < 0 THEN best.account ELSE counterparty

ReceiverOf(best, counterparty) ==
    IF best.change > 0 THEN best.account ELSE counterparty

\* The value of _parse_transaction when it returns None.
NoTransfer ==
    [matched |-> FALSE, amount |-> 0, sender |-> NoAccount,
     receiver |-> NoAccount, fee |-> 0, balance_changes |-> <<>>]

\* message.get("accountKeys", []) if it is a list, else
\* message.get("accounts", []).
AccountKeysOf(t) ==
    IF ~t.hasMessage THEN <<>>
    ELSE IF t.accountKeysIsList THEN t.accountKeys
    ELSE t.accounts

\* meta.get("fee", 0) / 1e9
FeeOf(t) == IF t.hasFee THEN t.fee ELSE 0

\* _parse_transaction.  A null meta makes meta.get raise inside the try,
\* which the except turns into None; an absent meta is {}.
ParseTransaction(t, target, tol, thr) ==
    IF t.metaKind = "null" THEN NoTransfer
    ELSE IF t.metaKind = "absent" THEN NoTransfer
    ELSE IF t.err THEN NoTransfer
    ELSE IF t.preBalances = <<>> \/ t.postBalances = <<>> THEN NoTransfer
    ELSE IF AccountKeysOf(t) = <<>> THEN NoTransfer
    ELSE
      LET balance_changes == AnalyzeBalanceChanges(t.preBalances,
                                 t.postBalances, AccountKeysOf(t), thr)
          significant == SignificantTransfers(balance_changes, thr)
          matches     == Matches(significant, target, tol)
      IN  IF matches = <<>> THEN NoTransfer
          ELSE
            LET best == BestMatch(matches)
                cp   == CounterpartyAccount(significant, best, thr)
            IN  [matched  |-> TRUE,
                 amount   |-> Abs(best.change),
                 sender   |-> SenderOf(best, cp),
                 receiver |-> ReceiverOf(best, cp),
                 fee      |-> FeeOf(t),
                 balance_changes |-> balance_changes]


\* ---------------------------------------------------------------- state
VARIABLES
    min_amount_threshold, \* client.min_amount_threshold
    amount_in_sol,        \* the target amount of the scan or match
    tolerance,            \* the tolerance of the scan or match
    tx,                   \* the transaction handed to _parse_transaction
    transfer,             \* what _parse_transaction returned for tx
    parsed,               \* whether _parse_transaction has returned
    request_counter,      \* client.request_counter
    rpc_pc,               \* _make_rpc_request: "idle", "loop" or "returned"
    attempt,              \* the loop variable of _make_rpc_request
    rpc_id,               \* data["id"] of the request being made
    rpc_log,              \* the posts and sleeps of the current call, in order
    response,             \* what _make_rpc_request returned
    pc,                   \* where scan_for_amount is
    block_limit,          \* the block_limit of the scan
    latest_block,         \* get_recent_blocks: latest_block
    slots,                \* get_recent_blocks: response["result"]
    slot_idx,             \* get_recent_blocks: position of its for loop
    blocks,               \* the (slot, block_time) list being built, then scanned
    block_idx,            \* scan_for_amount: position of the loop over blocks
    transactions,         \* scan_for_amount: transactions of the current block
    tx_idx,               \* scan_for_amount: position of the loop over transactions
    matches,              \* scan_for_amount: matches
    fetched               \* history: what get_block_transactions gave, per block visited

parseVars == <<min_amount_threshold, amount_in_sol, tolerance, tx, transfer, parsed>>

rpcVars == <<request_counter, rpc_pc, attempt, rpc_id, rpc_log, response>>

scanVars == <<pc, block_limit, latest_block, slots, slot_idx, blocks, block_idx,
              transactions, tx_idx, matches, fetched>>

vars == <<parseVars, rpcVars, scanVars>>

\* scan_for_amount not called.
ScanIdle ==
    /\ pc = "idle"
    /\ block_limit = 0
    /\ latest_block = [isNone |-> FALSE, value |-> 0]
    /\ slots = <<>>
    /\ slot_idx = 1
    /\ blocks = <<>>
    /\ block_idx = 1
    /\ transactions = <<>>
    /\ tx_idx = 1
    /\ matches = <<>>
    /\ fetched = <<>>

\* The response of a call that has not returned, and Python's None.
NoResponse == [kind |-> "none", body |-> ""]

\* The gateway at rest, one call made by the constructor (get_latest_block
\* in SolanaRPCClient.__init__).
RpcIdle ==
    /\ request_counter = 1
    /\ rpc_pc = "idle"
    /\ attempt = 0
    /\ rpc_id = 1
    /\ rpc_log = <<>>
    /\ response = NoResponse

\* ------------------------------------------------- inputs of the matcher
Balances == 0..MaxBalance

\* The first k account keys.
Keys(k) == [i \in 1..k |-> KeyNames[i]]

\* A getBlock transaction as JSON.
MakeTx(metaKind, err, pre, post, hasFee, fee, hasMessage, isList, keys, sigKind, sigs) ==
    [metaKind |-> metaKind, err |-> err, preBalances |-> pre,
     postBalances |-> post, hasFee |-> hasFee, fee |-> fee,
     hasTransaction |-> TRUE, hasMessage |-> hasMessage,
     accountKeysIsList |-> isList,
     accountKeys |-> IF isList THEN keys ELSE <<>>,
     accounts |-> IF isList THEN <<>> ELSE keys,
     sigKind |-> sigKind, signatures |-> sigs]

\* An account's balance goes to or from 0 (the code reads only the
\* difference of the two).
BalancePairs == {p \in Balances \X Balances : p[1] = 0 \/ p[2] = 0}

\* The (pre, post) balances of n accounts.
AlignedBalances(n) == [1..n -> BalancePairs]

PreOf(b)  == [i \in 1..Len(b) |-> b[i][1]]

PostOf(b) == [i \in 1..Len(b) |-> b[i][2]]

\* The lengths of (preBalances, postBalances, accountKeys) built from n
\* accounts: aligned, or one of the three arrays shorter than the others.
ArrayLengths(n) ==
    {<<n, n, n>>} \cup {<<k, n, n>> : k \in 0..(n - 1)}
                  \cup {<<n, k, n>> : k \in 0..(n - 1)}
                  \cup {<<n, n, k>> : k \in 0..(n - 1)}

\* (err is set, fee is present, fee) of a transaction's meta.
MetaVariants == {<<FALSE, FALSE, 0>>, <<FALSE, TRUE, 1>>, <<TRUE, TRUE, 0>>}

\* A well-typed transaction with meta present.
ObjectTx(b, l, v) ==
    MakeTx("object", v[1], SubSeq(PreOf(b), 1, l[1]), SubSeq(PostOf(b), 1, l[2]),
           v[2], v[3], TRUE, TRUE, Keys(l[3]), "list", <<"sig">>)

\* A transaction whose meta is null ("null") or missing ("absent").
NoMetaTx(kind, n) ==
    MakeTx(kind, FALSE, <<>>, <<>>, FALSE, 0, TRUE, TRUE, Keys(n), "list", <<"sig">>)

\* A transaction whose message is missing (hasMessage = FALSE) or lists its
\* keys under "accounts" (isList = FALSE).
OddMessageTx(b, hasMessage, isList) ==
    MakeTx("object", FALSE, PreOf(b), PostOf(b), TRUE, 0, hasMessage, isList,
           Keys(Len(b)), "list", <<"sig">>)

\* Section 8's example, in units of 0.0001 coin: A changes by -5.0, B by
\* +5.0002; threshold 0.001, target 5.0, tolerance 0.01.
ExampleTx ==
    MakeTx("object", FALSE, <<50000, 0>>, <<0, 50002>>, TRUE, 0, TRUE, TRUE,
           Keys(2), "list", <<"sig">>)

Thresholds == {1, 2}

Targets == {2, 3}

Tolerances == {0, 1}

\* The matcher's variables, unused.
ParseIdle ==
    /\ min_amount_threshold = 1
    /\ amount_in_sol = 1
    /\ tolerance = 0
    /\ tx = NoMetaTx("absent", 0)
    /\ transfer = NoTransfer
    /\ parsed = FALSE

\* --------------------------------------------- the matcher, applied once
InitParse ==
    /\ RpcIdle
    /\ ScanIdle
    /\ transfer = NoTransfer
    /\ parsed = FALSE
    /\ \/ /\ min_amount_threshold \in Thresholds
          /\ amount_in_sol \in Targets
          /\ tolerance \in Tolerances
          /\ \E n \in 0..MaxAccounts : \E b \in AlignedBalances(n) :
               \/ \E l \in ArrayLengths(n) : \E v \in MetaVariants :
                    tx = ObjectTx(b, l, v)
               \/ \E hasMessage, isList \in BOOLEAN :
                    tx = OddMessageTx(b, hasMessage, isList)
               \/ \E kind \in {"null", "absent"} : tx = NoMetaTx(kind, n)
       \/ /\ min_amount_threshold = 10
          /\ amount_in_sol = 50000
          /\ tolerance = 100
          /\ tx = ExampleTx

Parse ==
    /\ ~parsed
    /\ transfer' = ParseTransaction(tx, amount_in_sol, tolerance, min_amount_threshold)
    /\ parsed' = TRUE
    /\ UNCHANGED <<min_amount_threshold, amount_in_sol, tolerance, tx, rpcVars, scanVars>>

NextParse == Parse

SpecParse == InitParse /\ [][NextParse]_vars


\* ------------------------------------------------ claims on the matcher
\* The raw view of tx that the claims speak of: the resolved key list, the
\* indexes below the shortest of the three arrays, the change of each.
TxKeys == AccountKeysOf(tx)

SharedIndexes ==
    1..Min2(Len(tx.preBalances), Min2(Len(tx.postBalances), Len(TxKeys)))

ChangeAt(i) == tx.postBalances[i] - tx.preBalances[i]

WithinTolerance(i) == Abs(Abs(ChangeAt(i)) - amount_in_sol) <= tolerance

Eligible(i) == Abs(ChangeAt(i)) >= min_amount_threshold /\ WithinTolerance(i)

\* The index the claims call best_match: the first, in key order, of the
\* accounts within tolerance whose magnitude is the largest.
BestIndex ==
    CHOOSE i \in SharedIndexes :
        /\ WithinTolerance(i)
        /\ \A j \in SharedIndexes :
              WithinTolerance(j) =>
                 /\ Abs(ChangeAt(j)) <= Abs(ChangeAt(i))
                 /\ (Abs(ChangeAt(j)) = Abs(ChangeAt(i)) => i <= j)

\* The accounts other than best_match that offset it, among the accounts
\* whose change reaches the threshold.
OffsetIndexes ==
    {j \in SharedIndexes :
        /\ j # BestIndex
        /\ Abs(ChangeAt(j)) >= min_amount_threshold
        /\ Abs(ChangeAt(j) + ChangeAt(BestIndex)) < min_amount_threshold}

FirstOffsetKey ==
    IF OffsetIndexes = {} THEN NoAccount
    ELSE TxKeys[CHOOSE j \in OffsetIndexes : \A k \in OffsetIndexes : j <= k]

\* The change of the account with key a.
ChangeOf(a) == ChangeAt(CHOOSE i \in SharedIndexes : TxKeys[i] = a)

\* C1: _parse_transaction returns a MatchedTransfer if and only if err is
\* null, the three arrays are non-empty and some index below the shortest
\* of the three lengths has |change| >= min_threshold and
\* ||change| - target| <= tolerance, both bounds inclusive.
C1_MatchIff ==
    parsed =>
        (transfer.matched <=>
            /\ ~tx.err
            /\ tx.preBalances # <<>>
            /\ tx.postBalances # <<>>
            /\ TxKeys # <<>>
            /\ \E i \in SharedIndexes : Eligible(i))

\* A match found exactly at the upper edge of the window, in a transaction
\* whose arrays differ in length.
C1_Witness ==
    /\ parsed
    /\ transfer.matched
    /\ tolerance > 0
    /\ transfer.amount = amount_in_sol + tolerance
    /\ Len(tx.preBalances) # Len(tx.postBalances)

\* C2: the amount of a MatchedTransfer is the largest |change| among the
\* accounts within tolerance of the target, and on a tie of that magnitude
\* best_match is the first of them in account-key order.
C2_LargestFirst ==
    (parsed /\ transfer.matched) =>
        /\ transfer.amount = Abs(ChangeAt(BestIndex))
        /\ \A j \in SharedIndexes :
              WithinTolerance(j) => Abs(ChangeAt(j)) <= transfer.amount
        /\ ChangeAt(BestIndex) < 0 => transfer.sender = TxKeys[BestIndex]
        /\ ChangeAt(BestIndex) > 0 => transfer.receiver = TxKeys[BestIndex]

\* Two accounts tie on the largest magnitude with the same sign, and a
\* smaller match exists as well.
C2_Witness ==
    /\ parsed
    /\ transfer.matched
    /\ \E i, j \in SharedIndexes :
          /\ i < j
          /\ ChangeAt(i) = ChangeAt(j)
          /\ Abs(ChangeAt(i)) = transfer.amount
    /\ \E k \in SharedIndexes :
          Eligible(k) /\ Abs(ChangeAt(k)) < transfer.amount

\* C3: the counterparty is the first account, in candidate order, other
\* than best_match with |c + best_match.change| < min_threshold, searched
\* among all accounts with |change| >= min_threshold; sender and receiver
\* follow from the sign of best_match's change; and the two-account
\* example yields sender A, receiver B, amount 5.0002.
C3_Counterparty ==
    (parsed /\ transfer.matched) =>
        /\ transfer.sender =
              (IF ChangeAt(BestIndex) < 0 THEN TxKeys[BestIndex] ELSE FirstOffsetKey)
        /\ transfer.receiver =
              (IF ChangeAt(BestIndex) > 0 THEN TxKeys[BestIndex] ELSE FirstOffsetKey)
        /\ (tx = ExampleTx /\ min_amount_threshold = 10 /\ amount_in_sol = 50000
               /\ tolerance = 100)
           => (transfer.sender = "A" /\ transfer.receiver = "B"
                  /\ transfer.amount = 50002)

\* Two accounts offset best_match, and the first of them lies outside the
\* tolerance window.
C3_Witness ==
    /\ parsed
    /\ transfer.matched
    /\ Cardinality(OffsetIndexes) >= 2
    /\ \E j \in OffsetIndexes :
          /\ \A k \in OffsetIndexes : j <= k
          /\ ~WithinTolerance(j)
          /\ TxKeys[j] \in {transfer.sender, transfer.receiver}

\* C4: with min_threshold > 0, a sender and a receiver that are both set
\* are distinct accounts, the sender's change negative, the receiver's
\* positive, their sum below min_threshold in magnitude; when no other
\* account offsets best_match exactly one side is set, by the sign of
\* best_match's change; a set sender never gained, a set receiver never
\* lost.
C4_Attribution ==
    (parsed /\ transfer.matched /\ min_amount_threshold > 0) =>
        /\ (transfer.sender # NoAccount /\ transfer.receiver # NoAccount) =>
              /\ transfer.sender # transfer.receiver
              /\ \E i, j \in SharedIndexes :
                    TxKeys[i] = transfer.sender /\ TxKeys[j] = transfer.receiver
              /\ ChangeOf(transfer.sender) < 0
              /\ ChangeOf(transfer.receiver) > 0
              /\ Abs(ChangeOf(transfer.sender) + ChangeOf(transfer.receiver))
                    < min_amount_threshold
        /\ (\A j \in SharedIndexes \ {BestIndex} :
                Abs(ChangeAt(j) + ChangeAt(BestIndex)) >= min_amount_threshold) =>
              /\ (transfer.sender # NoAccount) # (transfer.receiver # NoAccount)
              /\ (transfer.sender # NoAccount) <=> (ChangeAt(BestIndex) < 0)
        /\ transfer.sender # NoAccount => ChangeOf(transfer.sender) <= 0
        /\ transfer.receiver # NoAccount => ChangeOf(transfer.receiver) >= 0

\* Sender and receiver both set, their changes not cancelling exactly.
C4_Witness ==
    /\ parsed
    /\ transfer.matched
    /\ transfer.sender # NoAccount
    /\ transfer.receiver # NoAccount
    /\ ChangeOf(transfer.sender) + ChangeOf(transfer.receiver) # 0
    /\ tx # ExampleTx

\* The accounts that have both a pre and a post balance.
BalanceIndexes == 1..Min2(Len(tx.preBalances), Len(tx.postBalances))

RECURSIVE SumOver(_)
SumOver(I) ==
    IF I = {} THEN 0
    ELSE LET i == CHOOSE k \in I : TRUE IN ChangeAt(i) + SumOver(I \ {i})

RECURSIVE SumChanges(_)
SumChanges(entries) ==
    IF entries = <<>> THEN 0
    ELSE Head(entries).change + SumChanges(Tail(entries))

\* The three arrays list the same accounts.
AlignedArrays ==
    /\ Len(tx.preBalances) = Len(tx.postBalances)
    /\ Len(tx.postBalances) = Len(TxKeys)

\* The raw balances conserve value: the changes of all accounts sum to -fee.
RawConserves == SumOver(BalanceIndexes) = -FeeOf(tx)

\* The accounts left out of balance_changes: no key for the index, or a
\* change below the threshold.
OmittedIndexes ==
    {i \in BalanceIndexes :
        i > Len(TxKeys) \/ Abs(ChangeAt(i)) < min_amount_threshold}

\* C10 as stated: when the raw balances conserve value, the change fields
\* of balance_changes sum to the negated fee of the MatchedTransfer.
C10_SumIsMinusFee ==
    (parsed /\ transfer.matched /\ AlignedArrays /\ RawConserves) =>
        SumChanges(transfer.balance_changes) = -transfer.fee

\* C10 amended: when the raw balances conserve value, the change fields of
\* balance_changes together with the changes of the accounts left out of
\* the map sum to the negated fee; so the map alone sums to -fee when no
\* account is left out, and misses it by less than min_threshold per
\* account left out for a change below the threshold.
C10_SumWithOmitted ==
    (parsed /\ transfer.matched /\ RawConserves) =>
        /\ SumChanges(transfer.balance_changes) + SumOver(OmittedIndexes)
              = -transfer.fee
        /\ OmittedIndexes = {} =>
              SumChanges(transfer.balance_changes) = -transfer.fee
        /\ (OmittedIndexes # {} /\ OmittedIndexes \subseteq 1..Len(TxKeys)) =>
              Abs(SumChanges(transfer.balance_changes) + transfer.fee)
                 < Cardinality(OmittedIndexes) * min_amount_threshold

\* A conserving transaction with a fee whose payer's change is below the
\* threshold and so is left out of the map.
C10_Witness ==
    /\ parsed
    /\ transfer.matched
    /\ RawConserves
    /\ transfer.fee > 0
    /\ \E i \in OmittedIndexes : ChangeAt(i) = -transfer.fee
    /\ Len(transfer.balance_changes) >= 2

\* ------------------------------------------------------ the RPC gateway
\* range(3): the attempts of one call.
MaxAttempts == 3

\* request_counter % 10 == 0: the self-throttle.
ThrottleEvery == 10

\* Calls made on one client, the constructor's included.
MaxCalls == 10

\* How one session.post can end: status 200 with a body that decodes
\* ("ok"), status 200 with a body response.json() cannot decode
\* ("undecodable", raised inside the try), another status ("status"), or
\* an exception of the transport, a timeout included ("exception").
Outcomes == {"ok", "undecodable", "status", "exception"}

\* The decoded bodies an endpoint may answer with.
RpcBodies == {"body1", "body2"}

\* An entry of rpc_log.
PostEvent(id, outcome, body) ==
    [kind |-> "post", id |-> id, outcome |-> outcome, body |-> body, secs |-> 0]

SleepEvent(secs) ==
    [kind |-> "sleep", id |-> 0, outcome |-> "", body |-> "", secs |-> secs]

ThrottleEvent ==
    [kind |-> "throttle", id |-> 0, outcome |-> "", body |-> "", secs |-> 0]

\* Whether the attempt ends in the except branch.
Raised(outcome) == outcome \in {"undecodable", "exception"}

\* The back-off of the except branch after attempt a (0-based): the events
\* it adds to the log.
Backoff(a, outcome) ==
    IF Raised(outcome) /\ a < 2 THEN <<SleepEvent(1 * (a + 1))>> ELSE <<>>

\* Mutant of MoreAttempts: one attempt too many.
MoreAttemptsOffByOne(a) == a + 1 <= MaxAttempts

\* Whether the for loop runs again after attempt a (0-based).
MoreAttempts(a) == a + 1 < MaxAttempts

\* The head of _make_rpc_request: count the call, throttle, build data.
RpcCall ==
    /\ rpc_pc = "idle"
    /\ request_counter < MaxCalls
    /\ request_counter' = request_counter + 1
    /\ rpc_id' = request_counter'
    /\ rpc_log' = IF request_counter' % ThrottleEvery = 0
                  THEN <<ThrottleEvent>> ELSE <<>>
    /\ attempt' = 0
    /\ response' = NoResponse
    /\ rpc_pc' = "loop"
    /\ UNCHANGED <<parseVars, scanVars>>

\* One iteration of the for loop.
RpcAttempt ==
    /\ rpc_pc = "loop"
    /\ \E outcome \in Outcomes :
       \E body \in (IF outcome = "ok" THEN RpcBodies ELSE {""}) :
          /\ rpc_log' = Append(rpc_log, PostEvent(rpc_id, outcome, body))
                           \o (IF outcome = "ok" THEN <<>> ELSE Backoff(attempt, outcome))
          /\ IF outcome = "ok"
             THEN /\ response' = [kind |-> "body", body |-> body]
                  /\ rpc_pc' = "returned"
                  /\ attempt' = attempt
             ELSE /\ response' = NoResponse
                  /\ rpc_pc' = IF MoreAttempts(attempt) THEN "loop" ELSE "returned"
                  /\ attempt' = IF MoreAttempts(attempt) THEN attempt + 1 ELSE attempt
    /\ UNCHANGED <<request_counter, rpc_id, parseVars, scanVars>>

\* The caller takes the result; the gateway is ready for the next call.
RpcReturn ==
    /\ rpc_pc = "returned"
    /\ rpc_pc' = "idle"
    /\ UNCHANGED <<request_counter, rpc_id, rpc_log, attempt, response, parseVars, scanVars>>

InitRpc == RpcIdle /\ ParseIdle /\ ScanIdle

NextRpc == RpcCall \/ RpcAttempt \/ RpcReturn

SpecRpc == InitRpc /\ [][NextRpc]_vars

\* ------------------------------------------------ claims on the gateway
\* The indexes of the posts in the log of the current call.
PostIndexes == {i \in 1..Len(rpc_log) : rpc_log[i].kind = "post"}

Answered200(i) == rpc_log[i].outcome \in {"ok", "undecodable"}

\* C7 as stated: a call makes 1 to 3 attempts, returns the decoded body of
\* the first attempt answered with status 200 and makes no attempt after
\* it, returns None without raising when all 3 attempts fail, uses one id
\* for all its attempts, and counts once per call.
C7_FirstStatus200 ==
    rpc_pc = "returned" =>
        /\ Cardinality(PostIndexes) \in 1..3
        /\ \A i \in PostIndexes :
              (Answered200(i) /\ \A j \in PostIndexes : j < i => ~Answered200(j)) =>
                 /\ response = [kind |-> "body", body |-> rpc_log[i].body]
                 /\ \A j \in PostIndexes : j <= i
        /\ (\A i \in PostIndexes : ~Answered200(i)) =>
              (response = NoResponse /\ Cardinality(PostIndexes) = 3)
        /\ \A i \in PostIndexes : rpc_log[i].id = rpc_id
        /\ rpc_id = request_counter

\* C7 amended: as stated, with "answered with status 200" read as "answered
\* with status 200 and a body that decodes"; a 200 answer whose body does
\* not decode is a failed attempt like the others and is retried.
C7_FirstDecoded200 ==
    /\ rpc_pc = "returned" =>
        /\ Cardinality(PostIndexes) \in 1..3
        /\ \A i \in PostIndexes :
              rpc_log[i].outcome = "ok" =>
                 /\ response = [kind |-> "body", body |-> rpc_log[i].body]
                 /\ \A j \in PostIndexes : j <= i
        /\ (\A i \in PostIndexes : rpc_log[i].outcome # "ok") =>
              (response = NoResponse /\ Cardinality(PostIndexes) = 3)
        /\ \A i \in PostIndexes : rpc_log[i].id = rpc_id
        /\ rpc_id = request_counter
    /\ rpc_pc = "loop" =>
        /\ Cardinality(PostIndexes) < 3
        /\ \A i \in PostIndexes : rpc_log[i].outcome # "ok" /\ rpc_log[i].id = rpc_id
        /\ rpc_id = request_counter

\* A call whose second attempt answered 200 with an undecodable body and
\* whose third attempt succeeded.
C7_Witness ==
    /\ rpc_pc = "returned"
    /\ response.kind = "body"
    /\ Cardinality(PostIndexes) = 3
    /\ \E i \in PostIndexes : rpc_log[i].outcome = "undecodable"
    /\ request_counter > 2

\* C8: between two attempts of one call there is a back-off sleep, of 1
\* unit before the second attempt and 2 units before the third, whatever
\* made the earlier attempt fail; none before the first attempt, none after
\* the last.
C8_BackoffBetweenAttempts ==
    \A i \in 1..Len(rpc_log) :
        /\ (rpc_log[i].kind = "post" /\ i < Len(rpc_log)) =>
              /\ rpc_log[i + 1].kind = "sleep"
              /\ rpc_log[i + 1].secs = Cardinality({j \in PostIndexes : j <= i})
        /\ rpc_log[i].kind = "sleep" =>
              /\ i > 1 /\ rpc_log[i - 1].kind = "post"
              /\ (rpc_pc = "returned" => i < Len(rpc_log))

\* ------------------------------------------------------------- the scan
\* Largest slot the endpoint reports as the latest.
MaxSlot == 2

\* Transactions the endpoint returns in one scan, over all its blocks.
MaxTxs == 3

\* What a gateway call gives its caller: None after three failed attempts
\* ("none"), a body without a result field ("noresult"), a body whose
\* result is null ("null"), or a body with a result ("value").
Resp(kind, value) == [kind |-> kind, value |-> value]

\* (min_amount_threshold, amount, tolerance) of a scan: the constructor and
\* scan_for_amount take any numbers.
ScanParams == {<<2, 3, 1>>, <<0, 3, 0>>, <<2, 0, 3>>, <<2, 3, -1>>}

BlockLimits == {1, 2}

\* The transactions the endpoint serves.
GoodTx ==
    MakeTx("object", FALSE, <<3, 0, 1>>, <<0, 3, 0>>, TRUE, 1, TRUE, TRUE,
           Keys(3), "list", <<"sig1">>)

LoneTx ==
    MakeTx("object", FALSE, <<0>>, <<2>>, FALSE, 0, TRUE, TRUE,
           Keys(1), "absent", <<>>)

EmptySignaturesTx ==
    MakeTx("object", FALSE, <<3, 0>>, <<0, 3>>, TRUE, 0, TRUE, TRUE,
           Keys(2), "list", <<>>)

NullMetaTx == NoMetaTx("null", 2)

SmallTx ==
    MakeTx("object", FALSE, <<1, 0>>, <<0, 1>>, TRUE, 0, TRUE, TRUE,
           Keys(2), "list", <<"sig5">>)

ScanTxs == {GoodTx, LoneTx, EmptySignaturesTx, NullMetaTx, SmallTx}

\* The block time the endpoint reports for a slot.
BlockTime(slot) == 100 + slot

\* The slots of S in ascending order, as getBlocks lists them.
RECURSIVE Ascending(_)
Ascending(S) ==
    IF S = {} THEN <<>>
    ELSE LET m == CHOOSE x \in S : \A y \in S : x <= y
         IN  <<m>> \o Ascending(S \ {m})

\* Python's order on (slot, block_time) tuples.
TupleLess(a, b) ==
    a.slot < b.slot \/ (a.slot = b.slot /\ a.block_time < b.block_time)

Without(q, i) == SubSeq(q, 1, i - 1) \o SubSeq(q, i + 1, Len(q))

\* Mutant of SortedReverse: ascending order.
RECURSIVE SortedForward(_)
SortedForward(bs) ==
    IF bs = <<>> THEN <<>>
    ELSE LET m == CHOOSE i \in 1..Len(bs) :
                     \A j \in 1..Len(bs) : ~TupleLess(bs[j], bs[i])
         IN  <<bs[m]>> \o SortedForward(Without(bs, m))

\* sorted(blocks, reverse=True)
RECURSIVE SortedReverse(_)
SortedReverse(bs) ==
    IF bs = <<>> THEN <<>>
    ELSE LET m == CHOOSE i \in 1..Len(bs) :
                     \A j \in 1..Len(bs) : ~TupleLess(bs[i], bs[j])
         IN  <<bs[m]>> \o SortedReverse(Without(bs, m))

\* get_latest_block's value for a response.
LatestOf(r) ==
    IF r.kind = "value" THEN [isNone |-> FALSE, value |-> r.value]
    ELSE IF r.kind = "null" THEN [isNone |-> TRUE, value |-> 0]
    ELSE [isNone |-> FALSE, value |-> 0]

\* tx.get("transaction", {}).get("signatures", [""])
SignaturesOf(t) ==
    IF t.hasTransaction /\ t.sigKind = "list" THEN t.signatures ELSE <<"">>

\* The Transaction appended for a match.
MatchRecord(t, tr, b) ==
    [tx_hash |-> SignaturesOf(t)[1], amount |-> tr.amount,
     block_height |-> b.slot, block_time |-> b.block_time,
     sender |-> tr.sender, receiver |-> tr.receiver, fee |-> tr.fee,
     balance_changes |-> tr.balance_changes]

RECURSIVE TxCount(_)
TxCount(f) == IF f = <<>> THEN 0 ELSE Len(Head(f).transactions) + TxCount(Tail(f))

\* The step after the last transaction of a block: the next block, or the
\* end of the scan.
AfterBlock ==
    IF block_idx < Len(blocks)
    THEN /\ block_idx' = block_idx + 1
         /\ pc' = "get_block_transactions"
    ELSE /\ block_idx' = block_idx
         /\ pc' = "done"

\* The constructor has run; scan_for_amount is called and enters
\* get_recent_blocks.
InitScan ==
    /\ RpcIdle
    /\ \E q \in ScanParams :
          /\ min_amount_threshold = q[1]
          /\ amount_in_sol = q[2]
          /\ tolerance = q[3]
    /\ tx = NoMetaTx("absent", 0)
    /\ transfer = NoTransfer
    /\ parsed = FALSE
    /\ pc = "get_latest_block"
    /\ block_limit \in BlockLimits
    /\ latest_block = [isNone |-> FALSE, value |-> 0]
    /\ slots = <<>>
    /\ slot_idx = 1
    /\ blocks = <<>>
    /\ block_idx = 1
    /\ transactions = <<>>
    /\ tx_idx = 1
    /\ matches = <<>>
    /\ fetched = <<>>

\* get_latest_block, called by get_recent_blocks.
GetLatestBlock ==
    /\ pc = "get_latest_block"
    /\ \E r \in {Resp("none", 0), Resp("noresult", 0), Resp("null", 0)}
                   \cup {Resp("value", v) : v \in 1..MaxSlot} :
          latest_block' = LatestOf(r)
    /\ request_counter' = request_counter + 1
    /\ pc' = "get_blocks"
    /\ UNCHANGED <<parseVars, rpc_pc, attempt, rpc_id, rpc_log, response,
                   block_limit, slots, slot_idx, blocks, block_idx,
                   transactions, tx_idx, matches, fetched>>

\* The getBlocks request of get_recent_blocks and the two returns after it.
\* latest_block - limit raises on None before the request is made; a null
\* result raises in the for statement.
GetBlocks ==
    /\ pc = "get_blocks"
    /\ IF latest_block.isNone
       THEN /\ pc' = "raised"
            /\ UNCHANGED <<request_counter, slots>>
       ELSE /\ request_counter' = request_counter + 1
            /\ \E r \in {Resp("none", <<>>), Resp("noresult", <<>>), Resp("null", <<>>)}
                  \cup {Resp("value", Ascending(S)) :
                           S \in SUBSET {x \in (latest_block.value - block_limit)
                                                  ..latest_block.value : x >= 0}} :
                 /\ slots' = r.value
                 /\ pc' = IF r.kind = "null" THEN "raised"
                          ELSE IF r.value = <<>> THEN "done"
                          ELSE "get_block_time"
    /\ UNCHANGED <<parseVars, rpc_pc, attempt, rpc_id, rpc_log, response,
                   block_limit, latest_block, slot_idx, blocks, block_idx,
                   transactions, tx_idx, matches, fetched>>

\* One iteration of the loop of get_recent_blocks: get_block_time and the
\* append; after the last slot, the sort, the return and the test of
\* scan_for_amount on an empty list.
GetBlockTime ==
    /\ pc = "get_block_time"
    /\ request_counter' = request_counter + 1
    /\ \E r \in {Resp("none", 0), Resp("noresult", 0), Resp("null", 0),
                 Resp("value", 0), Resp("value", BlockTime(slots[slot_idx]))} :
          LET truthy == r.kind = "value" /\ r.value # 0
              next   == IF truthy
                        THEN Append(blocks, [slot |-> slots[slot_idx],
                                             block_time |-> r.value])
                        ELSE blocks
          IN  IF slot_idx < Len(slots)
              THEN /\ blocks' = next
                   /\ pc' = pc
              ELSE /\ blocks' = SortedReverse(next)
                   /\ pc' = IF next = <<>> THEN "done" ELSE "get_block_transactions"
    /\ slot_idx' = slot_idx + 1
    /\ UNCHANGED <<parseVars, rpc_pc, attempt, rpc_id, rpc_log, response,
                   block_limit, latest_block, slots, block_idx,
                   transactions, tx_idx, matches, fetched>>

\* get_block_transactions for the current block.  A null result raises in
\* response["result"].get; None or a missing result give [].
GetBlockTransactions ==
    /\ pc = "get_block_transactions"
    /\ request_counter' = request_counter + 1
    /\ \E r \in {Resp("none", <<>>), Resp("noresult", <<>>), Resp("null", <<>>)}
                  \cup {Resp("value", q) :
                           q \in UNION {[1..k -> ScanTxs] :
                                           k \in 0..(MaxTxs - TxCount(fetched))}} :
          IF r.kind = "null"
          THEN /\ pc' = "raised"
               /\ UNCHANGED <<transactions, tx_idx, fetched, block_idx>>
          ELSE /\ transactions' = r.value
               /\ tx_idx' = 1
               /\ fetched' = Append(fetched,
                                [slot |-> blocks[block_idx].slot,
                                 block_time |-> blocks[block_idx].block_time,
                                 transactions |-> r.value])
               /\ IF r.value = <<>>
                  THEN AfterBlock
                  ELSE pc' = "parse_transaction" /\ block_idx' = block_idx
    /\ UNCHANGED <<parseVars, rpc_pc, attempt, rpc_id, rpc_log, response,
                   block_limit, latest_block, slots, slot_idx, blocks, matches>>

\* One iteration of the loop over the transactions of a block.  The first
\* signature is read outside the try of _parse_transaction: an empty
\* signatures list raises IndexError out of scan_for_amount.
ProcessTransaction ==
    /\ pc = "parse_transaction"
    /\ LET t  == transactions[tx_idx]
           tr == ParseTransaction(t, amount_in_sol, tolerance, min_amount_threshold)
       IN  IF tr.matched /\ SignaturesOf(t) = <<>>
           THEN /\ pc' = "raised"
                /\ UNCHANGED <<matches, tx_idx, block_idx>>
           ELSE /\ matches' = IF tr.matched
                              THEN Append(matches, MatchRecord(t, tr, blocks[block_idx]))
                              ELSE matches
                /\ IF tx_idx < Len(transactions)
                   THEN /\ tx_idx' = tx_idx + 1
                        /\ UNCHANGED <<pc, block_idx>>
                   ELSE /\ tx_idx' = tx_idx
                        /\ AfterBlock
    /\ UNCHANGED <<parseVars, rpcVars, block_limit, latest_block, slots,
                   slot_idx, blocks, transactions, fetched>>

NextScan ==
    \/ GetLatestBlock
    \/ GetBlocks
    \/ GetBlockTime
    \/ GetBlockTransactions
    \/ ProcessTransaction

SpecScan == InitScan /\ [][NextScan]_vars

\* -------------------------------------------------- claims on the scan
\* The transactions visited, in order, each with the slot and block time of
\* its block.
RECURSIVE Visited(_)
Visited(f) ==
    IF f = <<>> THEN <<>>
    ELSE [i \in 1..Len(Head(f).transactions) |->
             [slot |-> Head(f).slot, block_time |-> Head(f).block_time,
              t |-> Head(f).transactions[i]]]
         \o Visited(Tail(f))

\* The visited transactions on which the Matcher returns a match under
\* threshold thr, target and tolerance tol.
MatchedVisits(f, target, tol, thr) ==
    LET Hit(v) == ParseTransaction(v.t, target, tol, thr).matched
    IN  SelectSeq(Visited(f), Hit)

\* The records those matches make: position by position, the slot and time
\* of the block and the fields of the match.
IsRecordOf(r, v, target, tol, thr) ==
    LET m == ParseTransaction(v.t, target, tol, thr)
    IN  /\ r.block_height = v.slot
        /\ r.block_time = v.block_time
        /\ r.amount = m.amount
        /\ r.sender = m.sender
        /\ r.receiver = m.receiver
        /\ r.fee = m.fee

RecordsMatch(recs, f, target, tol, thr) ==
    LET hits == MatchedVisits(f, target, tol, thr)
    IN  /\ Len(recs) = Len(hits)
        /\ \A i \in 1..Len(hits) : IsRecordOf(recs[i], hits[i], target, tol, thr)

\* C5: the list scan_for_amount returns holds exactly one record per
\* matching transaction of the fetched blocks, in the order visited: blocks
\* in strictly descending slot order, transactions in getBlock's order;
\* each record carries its block's slot and block_time and its match's
\* amount, sender, receiver and fee.
C5_OrderedRecords ==
    pc = "done" =>
        /\ RecordsMatch(matches, fetched, amount_in_sol, tolerance,
                        min_amount_threshold)
        /\ \A i, j \in 1..Len(fetched) :
              i < j => fetched[i].slot > fetched[j].slot
        /\ \A i, j \in 1..Len(matches) :
              i < j => matches[i].block_height >= matches[j].block_height
        /\ \A i \in 1..Len(matches) :
              matches[i].block_time = BlockTime(matches[i].block_height)

\* A scan that returned records from two blocks, two of them from one
\* block, with a transaction skipped on the way.
C5_Witness ==
    /\ pc = "done"
    /\ Len(matches) = 3
    /\ matches[1].block_height = matches[2].block_height
    /\ matches[1].amount # matches[2].amount
    /\ matches[2].block_height > matches[3].block_height
    /\ Len(fetched) = 2
    /\ Len(fetched[1].transactions) = 2

\* C6: scan_for_amount never raises: whatever the endpoint answers and
\* however malformed a transaction is, it returns a list.
C6_NeverRaises == pc # "raised"

ParamsValid(thr, target, tol) == thr > 0 /\ target > 0 /\ tol >= 0

\* C9: a scan called with a threshold <= 0, a target <= 0 or a tolerance
\* < 0 returns nothing selected with the violating value: its result is
\* empty, or it is the result of the same scan with the violating values
\* replaced by valid ones.
C9_InvalidRejected ==
    (pc = "done" /\ ~ParamsValid(min_amount_threshold, amount_in_sol, tolerance)) =>
        \/ matches = <<>>
        \/ \E thr \in (IF min_amount_threshold > 0 THEN {min_amount_threshold}
                       ELSE 1..(MaxBalance + 1)) :
           \E target \in (IF amount_in_sol > 0 THEN {amount_in_sol}
                          ELSE 1..(MaxBalance + 1)) :
           \E tol \in (IF tolerance >= 0 THEN {tolerance} ELSE 0..MaxBalance) :
              RecordsMatch(matches, fetched, target, tol, thr)

=============================================================================
